---- MODULE Spec2Model ----
(***************************************************************************)
(* Model of the Chzzk client (src/chzzk.js): the event dispatcher          *)
(* (on / off / once / _triggerEvent) and the realtime chat session         *)
(* (connectChat / disconnectChat, the WebSocket handlers, the heartbeat    *)
(* and the reconnect timers).                                              *)
(*                                                                         *)
(* JavaScript runs one callback at a time, so every action below is one    *)
(* synchronous run of code: a public call up to its first suspension, a    *)
(* WebSocket event handler, a timer callback, or the continuation of an    *)
(* await.                                                                  *)
(***************************************************************************)
EXTENDS Integers, Sequences, FiniteSets

(***************************************************************************)
(* Bounds of the model.                                                    *)
(***************************************************************************)
MaxSlots == 2      \* connect attempts / sockets alive at the same time
MaxTimers == 1     \* reconnect timers pending at the same time
MaxClosures == 1   \* closures counted since the last explicit call
MaxChain == 6      \* the same, in runs in which the caller connects only once
MaxRegs == 3       \* registrations made over a run of the dispatcher
MaxDepth == 2      \* nesting of re-entrant emits
MaxHttp == 3       \* requests of one REST call that wait on each other
MaxCount == 3      \* refreshes, retries and events counted per REST call

Slots == 1..MaxSlots
TimerIds == 1..MaxTimers
Channels == {"A", "B"}

(***************************************************************************)
(* Program constants.                                                      *)
(***************************************************************************)
chatMaxReconnectAttempts == 5
BackoffBaseMs == 1000

EventNames ==
  {"tokenRefresh", "tokenExpired", "chatMessage", "chatDonation",
   "chatSubscription", "chatNotice", "chatError", "chatConnected",
   "chatDisconnected"}

\* Property names every object inherits: eventHandlers[name] is truthy for
\* them although it is no array.
InheritedNames == {"toString"}

\* The names the calls of the dispatcher are tried with.
TestNames == {"chatMessage", "chatError", "whisper", "toString"}

\* User callbacks. h1 and h2 return at once; hR emits the event it is handling
\* again from inside the handler; hT throws.
PlainHandlers == {"h1", "h2"}
ReHandler == "hR"
ThrowHandler == "hT"

VARIABLES
  chatSocket,             \* slot of this.chatSocket, 0 for null
  chatChannelId,          \* this.chatChannelId
  chatHeartbeatInterval,  \* 1 when this.chatHeartbeatInterval holds a timer, 0 for null
  intervals,              \* number of setInterval timers not yet cleared
  chatReconnectAttempts,  \* this.chatReconnectAttempts
  sock,                   \* slot -> connect attempt and the socket it created
  timers,                 \* pending setTimeout callbacks of onclose
  closures,               \* history: onclose runs since the last explicit call
  scheduled,              \* history: reconnects scheduled since the last explicit call
                          \* or successful open
  emitted,                \* events passed to _triggerEvent by the last step
  sent,                   \* frames passed to a socket's send() by the last step
  eventHandlers,          \* this.eventHandlers: name -> list of handlers
  nextReg,                \* history: number of the next registration
  removers,               \* the de-registration functions on/once have returned
  live,                   \* history: registrations made and not removed
  fired,                  \* history: invocations of each once wrapper
  lastCall,               \* the last call of the dispatcher, or the last connectChat
                          \* refused for its argument, and what it did
  received,               \* the payload passed to a socket's onmessage by the last step
  accessToken,            \* this.accessToken: 0 for '', n > 0 for the n-th token held
  refreshToken,           \* this.refreshToken: 0 for '', 1 when set
  autoRefreshToken,       \* this.autoRefreshToken
  tokenExpiry,            \* this.tokenExpiry: "null" | "soon" (within the threshold) | "far"
  http,                   \* the REST call in progress: its requests, innermost last
  restCall                \* history: what the REST call in progress has done so far

chatVars == <<chatSocket, chatChannelId, chatHeartbeatInterval, intervals,
              chatReconnectAttempts, sock, timers, closures, scheduled>>
evVars == <<eventHandlers, nextReg, removers, live, fired, lastCall>>
authVars == <<accessToken, refreshToken, autoRefreshToken, tokenExpiry, http, restCall>>
vars == <<chatVars, emitted, sent, evVars, received, authVars>>

\* the step is no onmessage / no part of a REST call
NoRecv == received' = <<>>
NoHttp == UNCHANGED authVars

(***************************************************************************)
(* The event dispatcher: on, off, once, _triggerEvent.                     *)
(*                                                                         *)
(* A function value is [h, once]: once = 0 is the user's callback h        *)
(* itself, once = k > 0 is the closure onceHandler created by the k-th     *)
(* registration around h.  An entry of a handler list is [fn, reg]; reg,   *)
(* the number of the registration that pushed it, is history only: the     *)
(* code compares functions.                                                *)
(***************************************************************************)
PlainFn(h) == [h |-> h, once |-> 0]
OnceFn(h, k) == [h |-> h, once |-> k]

\* eventHandlers[name] is truthy
Truthy(name) == name \in EventNames \cup InheritedNames

Fns(list) == [i \in 1..Len(list) |-> list[i].fn]
Regs(list) == [i \in 1..Len(list) |-> list[i].reg]

\* Array.prototype.push
Push(list, e) == Append(list, e)

\* a search from the end, as Array.prototype.lastIndexOf would do
LastIndexOf(list, fn) ==
  IF \E i \in 1..Len(list) : list[i].fn = fn
  THEN CHOOSE i \in 1..Len(list) :
         /\ list[i].fn = fn
         /\ \A j \in (i + 1)..Len(list) : list[j].fn # fn
  ELSE 0

\* Array.prototype.indexOf, 1-based; 0 when absent
IndexOf(list, fn) ==
  IF \E i \in 1..Len(list) : list[i].fn = fn
  THEN CHOOSE i \in 1..Len(list) :
         /\ list[i].fn = fn
         /\ \A j \in 1..(i - 1) : list[j].fn # fn
  ELSE 0

\* Array.prototype.splice(index, 1)
Splice(list, i) == [j \in 1..(Len(list) - 1) |-> IF j < i THEN list[j] ELSE list[j + 1]]

\* off(eventName, handler) on a name that holds an array
Off(eh, name, fn) ==
  IF name \notin EventNames THEN eh
  ELSE LET index == IndexOf(eh[name], fn)
       IN IF index # 0 THEN [eh EXCEPT ![name] = Splice(@, index)] ELSE eh

\* a wrapper that would not remove itself
OnceOffMissing(eh, name, fn) == eh

\* onceHandler's first statement: this.off(eventName, onceHandler)
OnceOff(eh, name, fn) == Off(eh, name, fn)

\* an iteration that would step over every second entry
NextIndexSkipping(i) == i + 2

\* the array iterator of for...of: the position after i
NextIndex(i) == i + 1

RECURSIVE Iterate(_, _, _, _)
RECURSIVE TriggerEvent(_, _, _)

\* The body of user callback h, run at nesting depth d; exc: it has thrown.
Body(st, name, h, d) ==
  IF h = ReHandler /\ d < MaxDepth THEN TriggerEvent(st, name, d + 1)
  ELSE IF h = ThrowHandler THEN [st EXCEPT !.exc = TRUE]
  ELSE st

\* handler(data) for the entry e of the list
Invoke(st, name, e, d) ==
  LET called == [st EXCEPT !.log = Append(@, [fn |-> e.fn, reg |-> e.reg, depth |-> d])]
  IN IF e.fn.once = 0
     THEN Body(called, name, e.fn.h, d)
     ELSE Body([called EXCEPT !.eh = OnceOff(@, name, e.fn)], name, e.fn.h, d)

\* a loop body without try / catch
NoCatch(st) == st

\* try { handler(data) } catch (error) { console.error(...) }
TryCatch(st) == [st EXCEPT !.exc = FALSE]

\* for (const handler of this.eventHandlers[eventName]): the iterator reads
\* the live array at position i; an exception that leaves the body ends the loop
Iterate(st, name, i, d) ==
  IF i > Len(st.eh[name]) THEN st
  ELSE LET r == TryCatch(Invoke(st, name, st.eh[name][i], d))
       IN IF r.exc THEN r ELSE Iterate(r, name, NextIndex(i), d)

\* the dispatcher's state at the entry of a _triggerEvent
Entry(eh) == [eh |-> eh, log |-> <<>>, exc |-> FALSE]

\* _triggerEvent(eventName, data); st = [eh, log, exc]
TriggerEvent(st, name, d) ==
  IF ~Truthy(name) THEN st
  ELSE IF name \notin EventNames THEN st   \* not iterable: TypeError, nothing invoked
  ELSE Iterate(st, name, 1, d)

RECURSIVE TriggerAll(_, _)
\* the handler lists after the _triggerEvent calls for names, in order
TriggerAll(eh, names) ==
  IF names = <<>> THEN eh
  ELSE TriggerAll(TriggerEvent(Entry(eh), Head(names), 0).eh, Tail(names))

NoCall == [op |-> "none", name |-> "", fn |-> PlainFn(""), reg |-> 0,
           error |-> "none", before |-> [n \in EventNames |-> <<>>], log |-> <<>>]

\* The effect of one _triggerEvent on the dispatcher's state.
DoTrigger(name) ==
  LET r == TriggerEvent(Entry(eventHandlers), name, 0)
      onceRegs == {r.log[i].reg : i \in {j \in 1..Len(r.log) : r.log[j].fn.once # 0}}
  IN /\ eventHandlers' = r.eh
     /\ fired' = [k \in DOMAIN fired |->
                    fired[k] + Cardinality({i \in 1..Len(r.log) :
                                              r.log[i].reg = k /\ r.log[i].fn.once # 0})]
     /\ live' = {x \in live : x.reg \notin onceRegs}
     /\ lastCall' = [NoCall EXCEPT !.op = "emit", !.name = name,
                       !.error = IF Truthy(name) /\ name \notin EventNames
                                 THEN "TypeError"
                                 ELSE IF r.exc THEN "thrown" ELSE "none",
                       !.before = eventHandlers, !.log = r.log]
     /\ UNCHANGED <<nextReg, removers>>

\* on(eventName, handler) with the entry's registration number reg
On(eh, name, fn, reg) ==
  IF ~Truthy(name) THEN [eh |-> eh, error |-> "Error"]
  ELSE IF name \notin EventNames THEN [eh |-> eh, error |-> "TypeError"]  \* .push is not a function
  ELSE [eh |-> [eh EXCEPT ![name] = Push(@, [fn |-> fn, reg |-> reg])], error |-> "none"]

\* once(eventName, handler): the k-th registration wraps handler in a new closure
Once(eh, name, h, k) == On(eh, name, OnceFn(h, k), k)

\* History: the registration off(name, fn) is specified to remove, the earliest
\* one of fn under name that is still there.
LiveWithout(name, fn) ==
  LET m == {x \in live : x.name = name /\ x.fn = fn}
  IN IF m = {} THEN live
     ELSE live \ {CHOOSE x \in m : \A y \in m : x.reg <= y.reg}

Registered(op, name, fn, r) ==
  /\ NoRecv
  /\ NoHttp
  /\ sent' = <<>>
  /\ eventHandlers' = r.eh
  /\ lastCall' = [NoCall EXCEPT !.op = op, !.name = name, !.fn = fn, !.reg = nextReg,
                    !.error = r.error, !.before = eventHandlers]
  /\ IF r.error = "none"
     THEN /\ nextReg' = nextReg + 1
          /\ removers' = removers \cup {[name |-> name, fn |-> fn, reg |-> nextReg]}
          /\ live' = live \cup {[name |-> name, fn |-> fn, reg |-> nextReg]}
     ELSE UNCHANGED <<nextReg, removers, live>>
  /\ UNCHANGED <<fired, chatVars>>
  /\ emitted' = <<>>

OnCall(name, h) ==
  /\ nextReg <= MaxRegs
  /\ Registered("on", name, PlainFn(h), On(eventHandlers, name, PlainFn(h), nextReg))

OnceCall(name, h) ==
  /\ nextReg <= MaxRegs
  /\ Registered("once", name, OnceFn(h, nextReg), Once(eventHandlers, name, h, nextReg))

Removed(op, name, fn, reg) ==
  /\ NoRecv
  /\ NoHttp
  /\ sent' = <<>>
  /\ eventHandlers' = Off(eventHandlers, name, fn)
  /\ live' = LiveWithout(name, fn)
  /\ lastCall' = [NoCall EXCEPT !.op = op, !.name = name, !.fn = fn, !.reg = reg,
                    !.error = IF Truthy(name) /\ name \notin EventNames
                              THEN "TypeError" ELSE "none",
                    !.before = eventHandlers]
  /\ UNCHANGED <<nextReg, removers, fired, chatVars>>
  /\ emitted' = <<>>

\* the caller's off(eventName, handler)
OffCall(name, h) == Removed("off", name, PlainFn(h), 0)

\* a call of a function that on or once has returned
RemoverCall(rm) == Removed("remover", rm.name, rm.fn, rm.reg)

\* _triggerEvent(eventName, data) on its own
EmitCall(name) ==
  /\ NoRecv
  /\ NoHttp
  /\ sent' = <<>>
  /\ DoTrigger(name)
  /\ emitted' = <<[name |-> name, channelId |-> "null"]>>
  /\ UNCHANGED chatVars

(***************************************************************************)
(* The chat session.                                                       *)
(*                                                                         *)
(* A slot holds one call of connectChat and, once the call has created     *)
(* it, the WebSocket with the closures the call has set on it.             *)
(*   pc: "free" | "micro" (the await of an already resolved disconnectChat *)
(*       has not resumed yet) | "awaitDisc" (awaits the close event of the *)
(*       socket it tears down) | "awaitToken" (the chat token request is   *)
(*       in flight) | "CONNECTING" | "OPEN" | "CLOSING" | "CLOSED" (the    *)
(*       socket's readyState; CLOSING also stands for a failed socket      *)
(*       whose close event has not been delivered yet).                    *)
(*   chan: the call's channelId.  onclose: "orig" is the handler of        *)
(*   connectChat, "disc" the one disconnectChat has put in its place, and  *)
(*   waiter the slot of the connectChat that awaits it (0: a caller of     *)
(*   disconnectChat).  promise: the state of the call's promise.           *)
(* History: kind (who made the call), opened, cancelled (made by a timer   *)
(* that was pending when disconnectChat was called), teardown (the call    *)
(* found an open socket and closed it), tdDisc and tdErr (chatDisconnected *)
(* and chatError events emitted from such a call until it created its      *)
(* socket, counted up to 2).                                               *)
(***************************************************************************)
FreeSlot ==
  [pc |-> "free", chan |-> "null", kind |-> "explicit", onclose |-> "orig",
   waiter |-> 0, promise |-> "pending", opened |-> FALSE, cancelled |-> FALSE,
   teardown |-> FALSE, tdDisc |-> 0, tdErr |-> 0]

NoTimer == [chan |-> "null", delay |-> 0, ord |-> 0, opened |-> FALSE, stale |-> FALSE]

Live(s) == sock[s].pc \in {"CONNECTING", "OPEN"}
\* No continuation of an await is queued: the next task (a socket event, a
\* timer, a response) may run.
NoMicro == \A c \in Slots : sock[c].pc # "micro"

\* A closed socket that this.chatSocket does not reference is garbage.
Collect(sk, cs) ==
  [c \in Slots |-> IF sk[c].pc = "CLOSED" /\ c # cs THEN FreeSlot ELSE sk[c]]

\* _cleanupChatConnection(): the value it leaves in chatReconnectAttempts
CleanupAttempts(n) == 0

\* the delay of the reconnect timer, 1000 * Math.pow(2, attempts)
BackoffDelay(n) == BackoffBaseMs * 2 ^ n

\* History: n + 1, counted up to cap.
UpTo(n, cap) == IF n < cap THEN n + 1 ELSE cap

\* History: the calls that closed an open socket and have not created their
\* own yet count the event, up to 2 (more than one).
Count(sk, name) ==
  [c \in Slots |->
     IF sk[c].pc \in {"awaitDisc", "awaitToken"} /\ sk[c].teardown
     THEN [sk[c] EXCEPT !.tdDisc = IF name = "chatDisconnected" THEN UpTo(@, 2) ELSE @,
                        !.tdErr = IF name = "chatError" THEN UpTo(@, 2) ELSE @]
     ELSE sk[c]]

\* this._triggerEvent(name, {channelId, ...}) inside a handler of the session
Emit(name, ch) ==
  /\ eventHandlers' = TriggerEvent(Entry(eventHandlers), name, 0).eh
  /\ emitted' = <<[name |-> name, channelId |-> ch]>>
  /\ UNCHANGED <<nextReg, removers, live, fired, lastCall>>

NoEmit ==
  /\ emitted' = <<>>
  /\ UNCHANGED evVars

NoSend == sent' = <<>>

\* a cleanup that would leave the heartbeat timer running
KeepHeartbeat == UNCHANGED <<chatHeartbeatInterval, intervals>>

\* _stopChatHeartbeat()
StopHeartbeat ==
  /\ chatHeartbeatInterval' = 0
  /\ intervals' = IF chatHeartbeatInterval # 0 THEN intervals - 1 ELSE intervals

\* connectChat(channelId) from its entry to its first suspension, run in the
\* free slot c
ConnectChat(c, ch, kind, canc) ==
  LET s == chatSocket
      call == [FreeSlot EXCEPT !.chan = ch, !.kind = kind, !.cancelled = canc]
  IN IF s = 0
     THEN /\ chatChannelId' = ch
          /\ sock' = [sock EXCEPT ![c] = [call EXCEPT !.pc = "awaitToken"]]
          /\ UNCHANGED <<chatSocket, chatHeartbeatInterval, intervals,
                         chatReconnectAttempts>>
     ELSE \* await this.disconnectChat()
          /\ StopHeartbeat
          /\ chatReconnectAttempts' = CleanupAttempts(chatReconnectAttempts)
          /\ IF sock[s].pc = "OPEN"
             THEN /\ sock' = [sock EXCEPT ![s].pc = "CLOSING", ![s].onclose = "disc",
                                          ![s].waiter = c,
                                          ![c] = [call EXCEPT !.pc = "awaitDisc",
                                                              !.teardown = TRUE]]
                  /\ UNCHANGED <<chatSocket, chatChannelId>>
             ELSE /\ chatSocket' = 0
                  /\ sock' = Collect([sock EXCEPT ![c] = [call EXCEPT !.pc = "micro"]], 0)
                  /\ UNCHANGED chatChannelId

FreeSlotId == CHOOSE c \in Slots : sock[c].pc = "free" /\ \A d \in Slots : sock[d].pc = "free" => c <= d

\* The caller's connectChat(ch).
Connect(ch) ==
  /\ NoRecv
  /\ NoHttp
  /\ NoSend
  /\ \E c \in Slots : sock[c].pc = "free"
  /\ ConnectChat(FreeSlotId, ch, "explicit", FALSE)
  /\ closures' = 0
  /\ scheduled' = 0
  /\ timers' = [t \in TimerIds |-> [timers[t] EXCEPT !.stale = FALSE]]
  /\ NoEmit

\* a check that would let every channelId pass
AnyChannelId(ch) == TRUE

\* connectChat: !channelId is false
ValidChannelId(ch) == ch # ""

\* connectChat: throw new Error(...) for the channelId; held is the socket the
\* client holds at the call (history)
Refuse(ch) ==
  /\ NoRecv
  /\ NoHttp
  /\ NoSend
  /\ emitted' = <<>>
  /\ lastCall' = [op |-> "connectChat", name |-> ch, fn |-> PlainFn(""), reg |-> 0,
                  error |-> "Error", before |-> eventHandlers, log |-> <<>>,
                  held |-> chatSocket]
  /\ UNCHANGED <<eventHandlers, nextReg, removers, live, fired>>
  /\ UNCHANGED chatVars

\* The caller's connectChat with any argument.
ConnectCall(ch) == IF ValidChannelId(ch) THEN Connect(ch) ELSE Refuse(ch)

\* The continuation of connectChat after an await of disconnectChat that had
\* resolved at once.
ConnectResume(c) ==
  /\ NoRecv
  /\ NoHttp
  /\ NoSend
  /\ sock[c].pc = "micro"
  /\ chatChannelId' = sock[c].chan
  /\ sock' = [sock EXCEPT ![c].pc = "awaitToken"]
  /\ UNCHANGED <<chatSocket, chatHeartbeatInterval, intervals, chatReconnectAttempts,
                 timers, closures, scheduled>>
  /\ NoEmit

\* _getChatAccessToken resolves: new WebSocket(...) and the four handlers
TokenOk(c) ==
  /\ NoRecv
  /\ NoHttp
  /\ NoSend
  /\ NoMicro
  /\ sock[c].pc = "awaitToken"
  /\ chatSocket' = c
  /\ sock' = Collect([sock EXCEPT ![c].pc = "CONNECTING"], c)
  /\ UNCHANGED <<chatChannelId, chatHeartbeatInterval, intervals, chatReconnectAttempts,
                 timers, closures, scheduled>>
  /\ NoEmit

\* _getChatAccessToken throws: the call rejects
TokenFail(c) ==
  /\ NoRecv
  /\ NoHttp
  /\ NoSend
  /\ NoMicro
  /\ sock[c].pc = "awaitToken"
  /\ sock' = [sock EXCEPT ![c] = FreeSlot]
  /\ UNCHANGED <<chatSocket, chatChannelId, chatHeartbeatInterval, intervals,
                 chatReconnectAttempts, timers, closures, scheduled>>
  /\ NoEmit

\* _sendChatAuthMessage(the token slot s has fetched) once the sockets are as
\* in sk: the frames it sends, each with the socket it is sent on
SendAuth(sk, s) ==
  IF chatSocket # 0 /\ sk[chatSocket].pc = "OPEN"
  THEN <<[on |-> chatSocket, type |-> "AUTH", token |-> s, channelId |-> chatChannelId]>>
  ELSE <<>>

\* the socket of slot s opens: onopen
SocketOpen(s) ==
  /\ NoRecv
  /\ NoHttp
  /\ NoMicro
  /\ sock[s].pc = "CONNECTING"
  /\ sock' = [sock EXCEPT ![s].pc = "OPEN", ![s].opened = TRUE, ![s].promise = "resolved"]
  /\ sent' = SendAuth(sock', s)
  /\ chatHeartbeatInterval' = 1                      \* _startChatHeartbeat()
  /\ intervals' = (IF chatHeartbeatInterval # 0 THEN intervals - 1 ELSE intervals) + 1
  /\ Emit("chatConnected", sock[s].chan)
  /\ scheduled' = 0
  /\ UNCHANGED <<chatSocket, chatChannelId, chatReconnectAttempts, timers, closures>>

\* an onerror that would clean the connection up as onclose does
ErrorCleansUp ==
  /\ StopHeartbeat
  /\ chatReconnectAttempts' = CleanupAttempts(chatReconnectAttempts)
  /\ UNCHANGED <<chatSocket, chatChannelId, timers, closures, scheduled>>

\* onerror: the fields of the session it assigns (none)
ErrorKeepsSession ==
  UNCHANGED <<chatSocket, chatChannelId, chatHeartbeatInterval, intervals,
              chatReconnectAttempts, timers, closures, scheduled>>

\* the socket of slot s fails: onerror; its close event follows
SocketError(s) ==
  /\ NoRecv
  /\ NoHttp
  /\ NoSend
  /\ NoMicro
  /\ Live(s)
  /\ sock' = Count([sock EXCEPT ![s].pc = "CLOSING",
                                ![s].promise = IF @ = "pending" THEN "rejected" ELSE @],
                   "chatError")
  /\ Emit("chatError", "null")
  /\ ErrorKeepsSession

FreeTimerId == CHOOSE t \in TimerIds : timers[t] = NoTimer

\* the close event of the socket of slot s, with the onclose of connectChat
CloseOrig(s, cap) ==
  /\ NoRecv
  /\ NoHttp
  /\ NoSend
  /\ NoMicro
  /\ sock[s].pc \in {"OPEN", "CLOSING"}
  /\ sock[s].onclose = "orig"
  /\ StopHeartbeat
  /\ Emit("chatDisconnected", sock[s].chan)
  /\ closures' = UpTo(closures, cap)
  /\ sock' = Collect(Count([sock EXCEPT ![s].pc = "CLOSED"], "chatDisconnected"), chatSocket)
  /\ LET n == CleanupAttempts(chatReconnectAttempts)
     IN IF n < chatMaxReconnectAttempts
        THEN /\ \E t \in TimerIds : timers[t] = NoTimer
             /\ chatReconnectAttempts' = n + 1
             /\ timers' = [timers EXCEPT ![FreeTimerId] =
                             [chan |-> sock[s].chan, delay |-> BackoffDelay(n + 1),
                              ord |-> UpTo(closures, cap), opened |-> sock[s].opened,
                              stale |-> FALSE]]
             /\ scheduled' = UpTo(scheduled, cap)
        ELSE /\ chatReconnectAttempts' = n
             /\ UNCHANGED <<timers, scheduled>>
  /\ UNCHANGED <<chatSocket, chatChannelId>>

SocketCloseOrig(s) == CloseOrig(s, MaxClosures)

\* the close event of the socket of slot s, with the onclose of disconnectChat:
\* this.chatSocket = null; resolve()
SocketCloseDisc(s) ==
  /\ NoRecv
  /\ NoHttp
  /\ NoSend
  /\ NoMicro
  /\ sock[s].pc = "CLOSING"
  /\ sock[s].onclose = "disc"
  /\ chatSocket' = 0
  /\ LET w == sock[s].waiter
         closed == [sock EXCEPT ![s].pc = "CLOSED"]
     IN IF w # 0
        THEN /\ sock' = Collect([closed EXCEPT ![w].pc = "awaitToken"], 0)
             /\ chatChannelId' = sock[w].chan
        ELSE /\ sock' = Collect(closed, 0)
             /\ UNCHANGED chatChannelId
  /\ UNCHANGED <<chatHeartbeatInterval, intervals, chatReconnectAttempts, timers,
                 closures, scheduled>>
  /\ NoEmit

\* The caller's disconnectChat().
Disconnect ==
  /\ NoRecv
  /\ NoHttp
  /\ NoSend
  /\ IF chatSocket = 0
     THEN UNCHANGED <<chatSocket, chatHeartbeatInterval, intervals,
                      chatReconnectAttempts, sock>>
     ELSE /\ StopHeartbeat
          /\ chatReconnectAttempts' = CleanupAttempts(chatReconnectAttempts)
          /\ IF sock[chatSocket].pc = "OPEN"
             THEN /\ sock' = [sock EXCEPT ![chatSocket].pc = "CLOSING",
                                          ![chatSocket].onclose = "disc",
                                          ![chatSocket].waiter = 0]
                  /\ UNCHANGED chatSocket
             ELSE /\ chatSocket' = 0
                  /\ sock' = Collect(sock, 0)
  /\ closures' = 0
  /\ scheduled' = 0
  /\ timers' = [t \in TimerIds |->
                  IF timers[t] = NoTimer THEN NoTimer ELSE [timers[t] EXCEPT !.stale = TRUE]]
  /\ UNCHANGED chatChannelId
  /\ NoEmit

\* a reconnect timer fires: this.connectChat(channelId).catch(() => {})
TimerFire(t) ==
  /\ NoRecv
  /\ NoHttp
  /\ NoSend
  /\ NoMicro
  /\ timers[t] # NoTimer
  /\ \E c \in Slots : sock[c].pc = "free"
  /\ ConnectChat(FreeSlotId, timers[t].chan, "reconnect", timers[t].stale)
  /\ timers' = [timers EXCEPT ![t] = NoTimer]
  /\ UNCHANGED <<closures, scheduled>>
  /\ NoEmit

PingFrame(s) == [on |-> s, type |-> "PING", token |-> 0, channelId |-> "null"]

\* a tick that would send without looking at the socket
PingUnguarded(sk, cs) == <<PingFrame(cs)>>

\* the frames one tick sends: if (this.chatSocket && readyState === OPEN) send(PING)
Ping(sk, cs) ==
  IF cs # 0 /\ sk[cs].pc = "OPEN" THEN <<PingFrame(cs)>> ELSE <<>>

\* the setInterval callback of _startChatHeartbeat
HeartbeatTick ==
  /\ NoRecv
  /\ NoHttp
  /\ NoMicro
  /\ chatHeartbeatInterval # 0
  /\ sent' = Ping(sock, chatSocket)
  /\ UNCHANGED <<chatSocket, chatChannelId, chatHeartbeatInterval, intervals,
                 chatReconnectAttempts, sock, timers, closures, scheduled>>
  /\ NoEmit

(***************************************************************************)
(* The state after the constructor, and the two specifications: Spec is    *)
(* the chat session of a client whose handler lists stay as constructed,   *)
(* SpecEvents the dispatcher of a client that never connects.              *)
(***************************************************************************)
(***************************************************************************)
(* Inbound frames: chatSocket.onmessage and _handleChatMessage.            *)
(*                                                                         *)
(* A payload is [wellFormed, value]: the text JSON.parse accepts or        *)
(* rejects, and the value it stands for.  A value is JSON null or an       *)
(* object; a property of an object is [p, v]: p says it is present, v is   *)
(* its value (of the property's type; not read when p is FALSE).           *)
(***************************************************************************)
NoNum == [p |-> FALSE, v |-> 0]
NoStr == [p |-> FALSE, v |-> ""]
NoArr == [p |-> FALSE, v |-> <<>>]
NoBool == [p |-> FALSE, v |-> FALSE]
Num(n) == [p |-> TRUE, v |-> n]
Str(x) == [p |-> TRUE, v |-> x]
Arr(a) == [p |-> TRUE, v |-> a]

EmptyFrame ==
  [null |-> FALSE, type |-> NoStr, userId |-> NoStr, nickname |-> NoStr,
   content |-> NoStr, badges |-> NoArr, timestamp |-> NoNum, months |-> NoNum,
   tier |-> NoNum, tierName |-> NoStr, amount |-> NoNum, currency |-> NoStr,
   isAnonymous |-> NoBool, noticeType |-> NoStr]

NullValue == [EmptyFrame EXCEPT !.null = TRUE]

\* Date.now() when the frame is handled
ReceiptTime == 1000

\* the default of tierName, '기본 구독' in the source
DefaultTierName == "gibon gudog"

\* The frames the session is tried with.
Typed(t) == [EmptyFrame EXCEPT !.type = Str(t), !.userId = Str("u1"),
                               !.nickname = Str("n"), !.content = Str("hi")]
ChatFrames ==
  {[Typed("CHAT") EXCEPT !.badges = b, !.timestamp = t] :
     b \in {NoArr, Arr(<<>>), Arr(<<"vip">>)}, t \in {NoNum, Num(0), Num(7)}}
SubscriptionFrames ==
  {[Typed("SUBSCRIPTION") EXCEPT !.months = m, !.tier = r, !.tierName = n, !.timestamp = Num(7)] :
     m \in {NoNum, Num(0), Num(3)}, r \in {NoNum, Num(2)}, n \in {NoStr, Str(""), Str("T2")}}
OtherFrames ==
  {[Typed("DONATION") EXCEPT !.amount = Num(500)],
   [Typed("DONATION") EXCEPT !.amount = Num(500), !.currency = Str("USD"),
                             !.isAnonymous = [p |-> TRUE, v |-> TRUE]],
   Typed("NOTICE"), Typed("PONG"), Typed("WHISPER"), EmptyFrame}
Payloads ==
  {[wellFormed |-> TRUE, value |-> f] :
     f \in ChatFrames \cup SubscriptionFrames \cup OtherFrames \cup {NullValue}}
  \cup {[wellFormed |-> FALSE, value |-> EmptyFrame]}

\* a parser that would take any text for an empty object
ParseLenient(raw) == [ok |-> TRUE, value |-> raw.value]

\* JSON.parse(event.data): ok is FALSE when it throws
Parse(raw) ==
  IF raw.wellFormed THEN [ok |-> TRUE, value |-> raw.value]
  ELSE [ok |-> FALSE, value |-> NullValue]

\* x || d for a number, a string, an array
OrNumAbsent(f, d) == IF f.p THEN f.v ELSE d
OrNum(f, d) == IF f.p /\ f.v # 0 THEN f.v ELSE d
OrStr(f, d) == IF f.p /\ f.v # "" THEN f.v ELSE d
OrArr(f, d) == IF f.p THEN f.v ELSE d

\* a timestamp that would always be the receipt time
OrNowAlways(f) == ReceiptTime

\* message.timestamp || Date.now()
OrNow(f) == OrNum(f, ReceiptTime)

Event(name, data) == [name |-> name, channelId |-> data.channelId, data |-> data]

ChatMessageEvent(m, ch) ==
  Event("chatMessage",
        [type |-> "message", channelId |-> ch, userId |-> m.userId,
         nickname |-> m.nickname, message |-> m.content,
         badges |-> OrArr(m.badges, <<>>), timestamp |-> OrNow(m.timestamp)])

ChatDonationEvent(m, ch) ==
  Event("chatDonation",
        [type |-> "donation", channelId |-> ch, userId |-> m.userId,
         nickname |-> m.nickname, message |-> m.content, amount |-> m.amount,
         currency |-> OrStr(m.currency, "KRW"),
         isAnonymous |-> (m.isAnonymous.p /\ m.isAnonymous.v),
         badges |-> OrArr(m.badges, <<>>), timestamp |-> OrNow(m.timestamp)])

ChatSubscriptionEvent(m, ch) ==
  Event("chatSubscription",
        [type |-> "subscription", channelId |-> ch, userId |-> m.userId,
         nickname |-> m.nickname, message |-> m.content,
         months |-> OrNum(m.months, 1), tier |-> OrNum(m.tier, 1),
         tierName |-> OrStr(m.tierName, DefaultTierName),
         badges |-> OrArr(m.badges, <<>>), timestamp |-> OrNow(m.timestamp)])

ChatNoticeEvent(m, ch) ==
  Event("chatNotice",
        [type |-> "notice", channelId |-> ch, message |-> m.content,
         noticeType |-> OrStr(m.noticeType, "NORMAL"),
         timestamp |-> OrNow(m.timestamp)])

\* a default branch that would report the frame as a notice
IgnoredAsNotice(m, ch) == <<ChatNoticeEvent(m, ch)>>

\* case 'PONG' and default: break
Ignored(m, ch) == <<>>

\* _handleChatMessage(message) with this.chatChannelId = ch: the events it
\* passes to _triggerEvent; threw: reading message.type has thrown
HandleChatMessage(m, ch) ==
  IF m.null THEN [threw |-> TRUE, events |-> <<>>]
  ELSE [threw |-> FALSE,
        events |->
          IF ~m.type.p THEN Ignored(m, ch)
          ELSE CASE m.type.v = "CHAT" -> <<ChatMessageEvent(m, ch)>>
                 [] m.type.v = "DONATION" -> <<ChatDonationEvent(m, ch)>>
                 [] m.type.v = "SUBSCRIPTION" -> <<ChatSubscriptionEvent(m, ch)>>
                 [] m.type.v = "NOTICE" -> <<ChatNoticeEvent(m, ch)>>
                 [] OTHER -> Ignored(m, ch)]

\* the catch of onmessage: chatError with the raw payload
ChatErrorEvent(raw) ==
  [name |-> "chatError", channelId |-> "null", data |-> [rawMessage |-> raw]]

\* the events of one onmessage
OnMessage(raw, ch) ==
  LET parsed == Parse(raw)
  IN IF ~parsed.ok THEN <<ChatErrorEvent(raw)>>
     ELSE LET r == HandleChatMessage(parsed.value, ch)
          IN IF r.threw THEN <<ChatErrorEvent(raw)>> ELSE r.events

\* a message event of the socket of slot s: onmessage
SocketMessage(s, raw) ==
  /\ NoHttp
  /\ NoSend
  /\ NoMicro
  /\ sock[s].pc = "OPEN"
  /\ received' = <<[on |-> s, raw |-> raw]>>
  /\ LET events == OnMessage(raw, chatChannelId)
     IN /\ emitted' = events
        /\ eventHandlers' = TriggerAll(eventHandlers, [i \in 1..Len(events) |-> events[i].name])
  /\ UNCHANGED <<nextReg, removers, live, fired, lastCall>>
  /\ UNCHANGED chatVars

(***************************************************************************)
(* REST calls through this.httpClient and its response interceptor.        *)
(*                                                                         *)
(* http is the chain of requests of the call in progress that wait on each *)
(* other, the one in flight last.  A request is [req, why]: req is "api"   *)
(* (a method's own request), "refresh" (the POST of refreshAccessToken) or *)
(* "issue" (the POST of issueAccessTokenByCode); why is "call" (the method *)
(* made it), "proactive" (_ensureValidToken), "explicit" (the caller's     *)
(* refreshAccessToken) or "reactive" (the interceptor, for the request     *)
(* below it that was answered 401).                                        *)
(* History, per call and counted up to MaxCount: reactive (refresh         *)
(* requests the interceptor has made), retries (requests it has sent       *)
(* again), refreshes (refreshes that succeeded), events (tokenRefresh      *)
(* events emitted).                                                        *)
(***************************************************************************)
NoRestCall == [kind |-> "none", state |-> "none", reactive |-> 0, retries |-> 0,
               refreshes |-> 0, events |-> 0]

Started(kind) == [NoRestCall EXCEPT !.kind = kind, !.state = "running"]

Request(req, why) == [req |-> req, why |-> why]

Top(stack) == stack[Len(stack)]
Pop(stack) == SubSeq(stack, 1, Len(stack) - 1)

\* the _triggerEvent calls of one step of a REST call
EmitAll(names) ==
  /\ eventHandlers' = TriggerAll(eventHandlers, names)
  /\ emitted' = [i \in 1..Len(names) |-> [name |-> names[i], channelId |-> "null"]]
  /\ UNCHANGED <<nextReg, removers, live, fired, lastCall>>

RestStep ==
  /\ NoRecv
  /\ NoSend
  /\ UNCHANGED chatVars

\* _ensureValidToken(): the refresh condition
NeedsRefresh ==
  autoRefreshToken /\ tokenExpiry # "null" /\ refreshToken # 0 /\ tokenExpiry = "soon"

\* the interceptor's condition on a 401 response
Intercepts == autoRefreshToken /\ refreshToken # 0

\* A method such as getMyUserInfo(): _ensureValidToken(), then its request.
ApiCall ==
  /\ RestStep
  /\ http = <<>>
  /\ IF accessToken = 0
     THEN /\ restCall' = [Started("api") EXCEPT !.state = "failed"]
          /\ UNCHANGED http
     ELSE /\ restCall' = Started("api")
          /\ http' = IF NeedsRefresh THEN <<Request("refresh", "proactive")>>
                                     ELSE <<Request("api", "call")>>
  /\ EmitAll(<<>>)
  /\ UNCHANGED <<accessToken, refreshToken, autoRefreshToken, tokenExpiry>>

\* The caller's refreshAccessToken().
RefreshCall ==
  /\ RestStep
  /\ http = <<>>
  /\ IF refreshToken = 0
     THEN /\ restCall' = [Started("refresh") EXCEPT !.state = "failed"]
          /\ UNCHANGED http
     ELSE /\ restCall' = Started("refresh")
          /\ http' = <<Request("refresh", "explicit")>>
  /\ EmitAll(<<>>)
  /\ UNCHANGED <<accessToken, refreshToken, autoRefreshToken, tokenExpiry>>

\* The caller's issueAccessTokenByCode(code, state).
IssueCall ==
  /\ RestStep
  /\ http = <<>>
  /\ restCall' = Started("issue")
  /\ http' = <<Request("issue", "explicit")>>
  /\ EmitAll(<<>>)
  /\ UNCHANGED <<accessToken, refreshToken, autoRefreshToken, tokenExpiry>>

\* _setTokenExpiry(expiresIn); exp is "none" when the response has no expiresIn
SetTokenExpiry(exp) == IF exp = "none" THEN tokenExpiry ELSE exp

\* The request in flight is answered 2xx.
Respond200(exp) ==
  /\ RestStep
  /\ http # <<>>
  /\ LET top == Top(http)
         rest == Pop(http)
     IN IF top.req = "api"
        THEN /\ http' = rest
             /\ restCall' = [restCall EXCEPT !.state = "ok"]
             /\ EmitAll(<<>>)
             /\ UNCHANGED <<accessToken, refreshToken, tokenExpiry>>
        ELSE /\ accessToken' = 1
             /\ refreshToken' = 1
             /\ tokenExpiry' = SetTokenExpiry(exp)
             /\ IF top.req = "issue"
                THEN /\ http' = rest
                     /\ restCall' = [restCall EXCEPT !.state = "ok"]
                     /\ EmitAll(<<>>)
                ELSE IF top.why = "proactive"
                THEN /\ http' = <<Request("api", "call")>>
                     /\ restCall' = [restCall EXCEPT !.refreshes = UpTo(@, MaxCount)]
                     /\ EmitAll(<<>>)
                ELSE IF top.why = "explicit"
                THEN /\ http' = rest
                     /\ restCall' = [restCall EXCEPT !.refreshes = UpTo(@, MaxCount),
                                                     !.state = "ok"]
                     /\ EmitAll(<<>>)
                ELSE \* the interceptor: tokenRefresh, then the request below again
                     /\ http' = rest
                     /\ restCall' = [restCall EXCEPT !.refreshes = UpTo(@, MaxCount),
                                                     !.events = UpTo(@, MaxCount),
                                                     !.retries = UpTo(@, MaxCount)]
                     /\ EmitAll(<<"tokenRefresh">>)
  /\ UNCHANGED autoRefreshToken

\* the tokenExpired events of a failure that unwinds the requests of stack
Expired(stack) ==
  LET r == SelectSeq(stack, LAMBDA f : f.why = "reactive")
  IN [i \in 1..Len(r) |-> "tokenExpired"]

\* The request in flight fails; code is 401 or another failure.  A 401 the
\* interceptor accepts starts a refresh; any other failure rejects every
\* request of the call.
RespondError(code) ==
  /\ RestStep
  /\ http # <<>>
  /\ IF code = 401 /\ Intercepts
     THEN /\ Len(http) < MaxHttp
          /\ http' = Append(http, Request("refresh", "reactive"))
          /\ restCall' = [restCall EXCEPT !.reactive = UpTo(@, MaxCount)]
          /\ EmitAll(<<>>)
     ELSE /\ http' = <<>>
          /\ restCall' = [restCall EXCEPT !.state = "failed"]
          /\ EmitAll(Expired(http))
  /\ UNCHANGED <<accessToken, refreshToken, autoRefreshToken, tokenExpiry>>

\* Date.now() comes within tokenRefreshThresholdMs of this.tokenExpiry
TimePasses ==
  /\ RestStep
  /\ tokenExpiry = "far"
  /\ tokenExpiry' = "soon"
  /\ EmitAll(<<>>)
  /\ UNCHANGED <<accessToken, refreshToken, autoRefreshToken, http, restCall>>

NextRest ==
  \/ ApiCall
  \/ RefreshCall
  \/ IssueCall
  \/ \E exp \in {"none", "soon", "far"} : Respond200(exp)
  \/ \E code \in {401, 500} : RespondError(code)
  \/ TimePasses

Init ==
  /\ chatSocket = 0
  /\ chatChannelId = "null"
  /\ chatHeartbeatInterval = 0
  /\ intervals = 0
  /\ chatReconnectAttempts = 0
  /\ sock = [c \in Slots |-> FreeSlot]
  /\ timers = [t \in TimerIds |-> NoTimer]
  /\ closures = 0
  /\ scheduled = 0
  /\ emitted = <<>>
  /\ sent = <<>>
  /\ eventHandlers = [n \in EventNames |-> <<>>]
  /\ nextReg = 1
  /\ removers = {}
  /\ live = {}
  /\ fired = [k \in 1..MaxRegs |-> 0]
  /\ lastCall = NoCall
  /\ received = <<>>
  /\ accessToken = 0
  /\ refreshToken = 0
  /\ autoRefreshToken = TRUE
  /\ tokenExpiry = "null"
  /\ http = <<>>
  /\ restCall = NoRestCall

Next ==
  \/ \E ch \in Channels : Connect(ch)
  \/ \E c \in Slots : ConnectResume(c)
  \/ \E c \in Slots : TokenOk(c)
  \/ \E c \in Slots : TokenFail(c)
  \/ \E s \in Slots : SocketOpen(s)
  \/ \E s \in Slots : SocketError(s)
  \/ \E s \in Slots : SocketCloseOrig(s)
  \/ \E s \in Slots : SocketCloseDisc(s)
  \/ Disconnect
  \/ \E t \in TimerIds : TimerFire(t)
  \/ HeartbeatTick

Spec == Init /\ [][Next]_vars

NextEvents ==
  \/ \E name \in TestNames, h \in PlainHandlers : OnCall(name, h)
  \/ \E name \in TestNames, h \in {"h1", ReHandler} : OnceCall(name, h)
  \/ \E name \in TestNames, h \in PlainHandlers : OffCall(name, h)
  \/ \E rm \in removers : RemoverCall(rm)
  \/ \E name \in TestNames : EmitCall(name)

\* The dispatcher with handlers that throw.
ThrowNames == {"chatMessage", "chatError"}

NextThrow ==
  \/ \E name \in ThrowNames, h \in {"h1", ThrowHandler} : OnCall(name, h)
  \/ \E name \in ThrowNames : OnceCall(name, ThrowHandler)
  \/ \E name \in ThrowNames : EmitCall(name)

SpecThrow == Init /\ [][NextThrow]_vars

\* The caller connects once and then leaves the session to itself.
FirstConnect(ch) ==
  /\ chatChannelId = "null"
  /\ Connect(ch)

ChainClose(s) == CloseOrig(s, MaxChain)

NextAuto ==
  \/ \E ch \in Channels : FirstConnect(ch)
  \/ \E c \in Slots : ConnectResume(c)
  \/ \E c \in Slots : TokenOk(c)
  \/ \E c \in Slots : TokenFail(c)
  \/ \E s \in Slots : SocketOpen(s)
  \/ \E s \in Slots : SocketError(s)
  \/ \E s \in Slots : ChainClose(s)
  \/ \E t \in TimerIds : TimerFire(t)
  \/ HeartbeatTick

SpecAuto == Init /\ [][NextAuto]_vars

SpecEvents == Init /\ [][NextEvents]_vars

SpecRest == Init /\ [][NextRest]_vars

\* A session that connects once, and calls of connectChat without a channelId.
NextRefuse ==
  \/ \E ch \in Channels : FirstConnect(ch)
  \/ \E c \in Slots : ConnectResume(c)
  \/ \E c \in Slots : TokenOk(c)
  \/ \E s \in Slots : SocketOpen(s)
  \/ \E s \in Slots : SocketError(s)
  \/ \E s \in Slots : ChainClose(s)
  \/ \E t \in TimerIds : TimerFire(t)
  \/ HeartbeatTick
  \/ ConnectCall("")

SpecRefuse == Init /\ [][NextRefuse]_vars

\* The calls of connectChat that are under way were made in the order of
\* their slots: the free slots are the highest ones.
InCallOrder ==
  \E c \in Slots : \A d \in Slots : (d >= c) <=> (sock[d].pc = "free")

ConnectInOrder(ch) ==
  /\ InCallOrder
  /\ Connect(ch)

TimerFireInOrder(t) ==
  /\ InCallOrder
  /\ TimerFire(t)

\* The chat session, with the calls of connectChat numbered in call order.
NextInOrder ==
  \/ \E ch \in Channels : ConnectInOrder(ch)
  \/ \E c \in Slots : ConnectResume(c)
  \/ \E c \in Slots : TokenOk(c)
  \/ \E c \in Slots : TokenFail(c)
  \/ \E s \in Slots : SocketOpen(s)
  \/ \E s \in Slots : SocketError(s)
  \/ \E s \in Slots : SocketCloseOrig(s)
  \/ \E s \in Slots : SocketCloseDisc(s)
  \/ Disconnect
  \/ \E t \in TimerIds : TimerFireInOrder(t)
  \/ HeartbeatTick

SpecInOrder == Init /\ [][NextInOrder]_vars

\* The caller awaits each connectChat before it calls connectChat again: no
\* explicit call is pending.
ConnectAwaited(ch) ==
  /\ \A c \in Slots :
        (sock[c].pc # "free" /\ sock[c].kind = "explicit") => sock[c].promise # "pending"
  /\ Connect(ch)

\* The chat session of a caller that awaits connectChat, but not disconnectChat.
NextAwaited ==
  \/ \E ch \in Channels : ConnectAwaited(ch)
  \/ \E c \in Slots : ConnectResume(c)
  \/ \E c \in Slots : TokenOk(c)
  \/ \E c \in Slots : TokenFail(c)
  \/ \E s \in Slots : SocketOpen(s)
  \/ \E s \in Slots : SocketError(s)
  \/ \E s \in Slots : SocketCloseOrig(s)
  \/ \E s \in Slots : SocketCloseDisc(s)
  \/ Disconnect
  \/ \E t \in TimerIds : TimerFire(t)
  \/ HeartbeatTick

SpecAwaited == Init /\ [][NextAwaited]_vars

\* One well-formed frame of each type that _handleChatMessage passes on.
ChannelFrames ==
  {[wellFormed |-> TRUE, value |-> f] :
     f \in {Typed("CHAT"), [Typed("DONATION") EXCEPT !.amount = Num(500)],
            Typed("SUBSCRIPTION"), Typed("NOTICE")}}

\* Calls of connectChat that overlap, and the frames their sockets deliver.
NextOverlap ==
  \/ \E ch \in Channels : Connect(ch)
  \/ \E c \in Slots : ConnectResume(c)
  \/ \E c \in Slots : TokenOk(c)
  \/ \E s \in Slots : SocketOpen(s)
  \/ \E s \in Slots : SocketCloseDisc(s)
  \/ \E s \in Slots, raw \in ChannelFrames : SocketMessage(s, raw)

SpecOverlap == Init /\ [][NextOverlap]_vars

\* A session that connects once, with once handlers, and the frames it receives.
NextMessages ==
  \/ \E ch \in Channels : FirstConnect(ch)
  \/ \E c \in Slots : ConnectResume(c)
  \/ \E c \in Slots : TokenOk(c)
  \/ \E s \in Slots : SocketOpen(s)
  \/ \E s \in Slots : SocketCloseOrig(s)
  \/ \E t \in TimerIds : TimerFire(t)
  \/ HeartbeatTick
  \/ \E name \in {"chatMessage", "chatError"} : OnceCall(name, "h1")
  \/ \E s \in Slots, raw \in Payloads : SocketMessage(s, raw)

SpecMessages == Init /\ [][NextMessages]_vars

(***************************************************************************)
(* The claims about reconnection.                                          *)
(***************************************************************************)

\* C1: for k = 1..5 the reconnect timer scheduled by the k-th consecutive
\* closure of a transport that had opened, with no explicit call in between,
\* has the delay 1000ms * 2^k (2s, 4s, 8s, 16s, 32s).
C1_DelayDoubles ==
  \A t \in TimerIds :
    (timers[t] # NoTimer /\ timers[t].opened /\ timers[t].ord <= chatMaxReconnectAttempts)
      => timers[t].delay = BackoffBaseMs * 2 ^ timers[t].ord

\* C2: while the caller makes no connect or disconnect call and no attempt
\* succeeds in opening its socket, at most chatMaxReconnectAttempts reconnects
\* are scheduled.
C2_ReconnectsBounded == scheduled <= chatMaxReconnectAttempts

\* C3: a reconnect timer that was pending when disconnectChat() was called
\* never starts a connect attempt (no token request, no socket) before the
\* caller's next connectChat.
C3_NoAttemptAfterDisconnect ==
  \A c \in Slots : sock[c].pc \in {"micro", "awaitDisc", "awaitToken", "CONNECTING", "OPEN"}
                     => ~sock[c].cancelled

\* C4: at most one socket created by the client is connecting or open.
C4_OneLiveTransport == Cardinality({s \in Slots : Live(s)}) <= 1

\* C5: a connectChat that finds the session connected has, by the time it
\* creates its socket, caused exactly one chatDisconnected event and no
\* chatError event.
C5_TeardownEmitsDisconnected ==
  \A c \in Slots :
    (sock[c].teardown /\ sock[c].pc \in {"CONNECTING", "OPEN", "CLOSING", "CLOSED"})
      => (sock[c].tdDisc = 1 /\ sock[c].tdErr = 0)

\* C6: a reconnect timer is scheduled only by the closure of a socket that had
\* opened; a socket that fails before it opens schedules none.
C6_ReconnectOnlyAfterOpen ==
  \A t \in TimerIds : timers[t] # NoTimer => timers[t].opened

(***************************************************************************)
(* The claims about the dispatcher, read off the last call.                *)
(***************************************************************************)
EmitDone == lastCall.op = "emit" /\ lastCall.name \in EventNames

PlainOnly(list) == \A i \in 1..Len(list) : list[i].fn.once = 0

\* the entries the outermost _triggerEvent has invoked itself, in order
TopLevel(log) ==
  LET top == SelectSeq(log, LAMBDA x : x.depth = 0)
  IN [i \in 1..Len(top) |-> [fn |-> top[i].fn, reg |-> top[i].reg]]

\* the registrations of name that were made and not removed, oldest first
LiveInOrder(name) ==
  LET S == {x \in live : x.name = name}
  IN CHOOSE q \in [1..Cardinality(S) -> S] :
       \A i, j \in 1..Cardinality(S) : i < j => q[i].reg < q[j].reg

\* list without its first entry that is the function fn
WithoutFirst(list, fn) ==
  IF \A i \in 1..Len(list) : list[i].fn # fn THEN list
  ELSE LET i == CHOOSE k \in 1..Len(list) :
                  list[k].fn = fn /\ \A j \in 1..(k - 1) : list[j].fn # fn
       IN SubSeq(list, 1, i - 1) \o SubSeq(list, i + 1, Len(list))

\* list without the entry of registration reg
WithoutReg(list, reg) == SelectSeq(list, LAMBDA e : e.reg # reg)

\* C7: after any calls of on and off, an emit of a name invokes exactly the
\* registrations of that name that were made and not removed, each once, the
\* oldest first, and no handler of another name.
C7_EmitInvokesRegistered ==
  (EmitDone /\ PlainOnly(lastCall.before[lastCall.name]))
    => LET q == LiveInOrder(lastCall.name)
       IN /\ Len(lastCall.log) = Len(q)
          /\ \A i \in 1..Len(q) :
               /\ lastCall.log[i].reg = q[i].reg
               /\ lastCall.log[i].fn = q[i].fn
               /\ lastCall.log[i].depth = 0

\* C7 happens: an emit has invoked two different handlers of a name of which
\* a third registration had been removed before.
C7_Witness ==
  /\ EmitDone
  /\ PlainOnly(lastCall.before[lastCall.name])
  /\ \E rm \in removers \ live : rm.name = lastCall.name /\ rm.fn.once = 0
  /\ Len(lastCall.log) = 2
  /\ lastCall.log[1].fn # lastCall.log[2].fn

\* C8: one emit invokes every handler that is in the name's list when the emit
\* starts, in the order of the list, once wrappers included.
C8_EmitInvokesAllAtStart ==
  EmitDone => TopLevel(lastCall.log) = lastCall.before[lastCall.name]

\* C9: a once wrapper is invoked at most once, and once it has been invoked it
\* is in no handler list.
C9_OnceFiresOnce ==
  \A k \in DOMAIN fired :
    /\ fired[k] <= 1
    /\ fired[k] = 1 =>
         \A n \in EventNames : \A i \in 1..Len(eventHandlers[n]) : eventHandlers[n][i].reg # k

\* C9 happens: a once wrapper around hR has been invoked, its handler has
\* emitted the event again, and that inner emit has invoked a handler.
C9_Witness ==
  /\ EmitDone
  /\ \E i, j \in 1..Len(lastCall.log) :
       /\ lastCall.log[i].fn.once # 0
       /\ lastCall.log[i].fn.h = ReHandler
       /\ fired[lastCall.log[i].reg] = 1
       /\ lastCall.log[j].depth = 1

C10_RegisterPart ==
  lastCall.op \in {"on", "once"} =>
    IF lastCall.name \notin EventNames
    THEN lastCall.error # "none" /\ eventHandlers = lastCall.before
    ELSE /\ lastCall.error = "none"
         /\ eventHandlers =
              [lastCall.before EXCEPT ![lastCall.name] =
                 Append(@, [fn |-> lastCall.fn, reg |-> lastCall.reg])]
         /\ [name |-> lastCall.name, fn |-> lastCall.fn, reg |-> lastCall.reg] \in removers

\* C10, as stated: on and once fail on an unrecognized name and leave the lists
\* unchanged; on a recognized name they append to the name's list, and a call of
\* the function they return removes that registration (and nothing else).
C10_RemoverRemovesThatRegistration ==
  /\ C10_RegisterPart
  /\ lastCall.op = "remover" =>
       Fns(eventHandlers[lastCall.name]) =
         Fns(WithoutReg(lastCall.before[lastCall.name], lastCall.reg))

\* C10, amended: ... a call of the function they return removes the first
\* entry of the name's list that is the registered function (the handler for
\* on, the wrapper for once), if there is one, and nothing else.
C10_RemoverRemovesFirstMatch ==
  /\ C10_RegisterPart
  /\ lastCall.op = "remover" =>
       eventHandlers =
         [lastCall.before EXCEPT ![lastCall.name] = WithoutFirst(@, lastCall.fn)]

\* C10 happens: a returned function has been called and has removed an entry
\* from a list of at least two.
C10_Witness ==
  /\ lastCall.op = "remover"
  /\ Len(lastCall.before[lastCall.name]) >= 2
  /\ Len(eventHandlers[lastCall.name]) < Len(lastCall.before[lastCall.name])

(***************************************************************************)
(* The claims about handlers that throw.                                   *)
(***************************************************************************)
\* the function fn with a body that returns where fn's throws
CalmFn(fn) == [fn EXCEPT !.h = IF @ = ThrowHandler THEN "h1" ELSE @]
CalmList(list) == [i \in 1..Len(list) |-> [list[i] EXCEPT !.fn = CalmFn(@)]]
CalmAll(eh) == [n \in DOMAIN eh |-> CalmList(eh[n])]

C12_ConnectedOnlyForHeldSocket ==
  \A i \in 1..Len(emitted) :
    emitted[i].name = "chatConnected" =>
      /\ Len(emitted) = 1
      /\ chatSocket # 0
      /\ sock[chatSocket].pc = "OPEN"
      /\ sock[chatSocket].promise = "resolved"
      /\ sock[chatSocket].chan = emitted[i].channelId

\* C13: a heartbeat tick sends exactly one PING frame, on the session's
\* socket, if that socket is open, and sends nothing otherwise; no step sends a
\* PING on a socket that is closed, closing or no longer held by the session.
C13_PingIffOpen ==
  [][/\ HeartbeatTick =>
          IF chatSocket # 0 /\ sock[chatSocket].pc = "OPEN"
          THEN Len(sent') = 1 /\ sent'[1].type = "PING" /\ sent'[1].on = chatSocket
          ELSE sent' = <<>>
     /\ \A i \in 1..Len(sent') :
          sent'[i].type = "PING" =>
            /\ chatSocket' # 0
            /\ sent'[i].on = chatSocket'
            /\ sock'[chatSocket'].pc = "OPEN"
            /\ chatHeartbeatInterval' # 0]_vars

\* C13 happens: a tick has sent a PING on the open socket that a reconnect
\* has created.
C13_Witness ==
  /\ Len(sent) = 1
  /\ sent[1].type = "PING"
  /\ sent[1].on = chatSocket
  /\ sock[chatSocket].pc = "OPEN"
  /\ sock[chatSocket].kind = "reconnect"

\* the last step was an onmessage; the value its payload stands for
Got == received # <<>>
Frame == received[1].raw.value
GotFrame(type) ==
  /\ Got
  /\ received[1].raw.wellFormed
  /\ ~Frame.null
  /\ Frame.type = [p |-> TRUE, v |-> type]
GotUnrecognized ==
  /\ Got
  /\ received[1].raw.wellFormed
  /\ ~Frame.null
  /\ Frame.type.p => Frame.type.v \notin {"CHAT", "DONATION", "SUBSCRIPTION", "NOTICE"}
GotMalformed == Got /\ ~received[1].raw.wellFormed

\* the step has left the socket, the heartbeat, the reconnect counter and the
\* timers alone, and has sent nothing
SessionUntouched ==
  /\ sent' = <<>>
  /\ UNCHANGED <<chatSocket, chatChannelId, chatHeartbeatInterval, intervals,
                 chatReconnectAttempts, sock, timers>>

\* C16: a frame whose type is none of CHAT, DONATION, SUBSCRIPTION, NOTICE (PONG,
\* an unknown type, no type) emits no event and changes neither the session
\* nor the handler lists.
C16_UnrecognizedIgnored ==
  [][GotUnrecognized' =>
       /\ emitted' = <<>>
       /\ SessionUntouched
       /\ UNCHANGED eventHandlers]_vars

\* C16 happens: a WHISPER frame has arrived on the open socket of a session
\* with a running heartbeat and a handler waiting for chatMessage.
C16_Witness ==
  /\ GotFrame("WHISPER")
  /\ emitted = <<>>
  /\ sock[received[1].on].pc = "OPEN"
  /\ chatHeartbeatInterval # 0
  /\ eventHandlers["chatMessage"] # <<>>

\* C17: a payload that JSON.parse rejects emits exactly one event, chatError
\* with the raw payload, and leaves the session alone: the socket stays open,
\* the heartbeat runs on, no reconnect is scheduled.
C17_MalformedReported ==
  [][GotMalformed' =>
       /\ Len(emitted') = 1
       /\ emitted'[1].name = "chatError"
       /\ emitted'[1].data = [rawMessage |-> received'[1].raw]
       /\ SessionUntouched]_vars

\* C17 happens: a malformed payload has arrived on an open socket and the
\* chatError event has been delivered to a once handler.
C17_Witness ==
  /\ GotMalformed
  /\ Len(emitted) = 1
  /\ emitted[1].name = "chatError"
  /\ sock[received[1].on].pc = "OPEN"
  /\ chatHeartbeatInterval # 0
  /\ eventHandlers["chatError"] = <<>>
  /\ \E rm \in removers : rm.name = "chatError"

\* the parts of C18 that do not depend on the defaults
SubscriptionPassed ==
  /\ Len(emitted) = 1
  /\ emitted[1].name = "chatSubscription"
  /\ emitted[1].data.channelId = chatChannelId
  /\ emitted[1].data.userId = Frame.userId
  /\ emitted[1].data.nickname = Frame.nickname
  /\ emitted[1].data.message = Frame.content

\* C18, as stated: a SUBSCRIPTION frame emits one chatSubscription event with
\* months 1, tier 1, tierName "basic" where the frame has none, and the
\* frame's own values where it has them.
C18_SubscriptionDefaults ==
  GotFrame("SUBSCRIPTION") =>
    /\ SubscriptionPassed
    /\ emitted[1].data.months = (IF Frame.months.p THEN Frame.months.v ELSE 1)
    /\ emitted[1].data.tier = (IF Frame.tier.p THEN Frame.tier.v ELSE 1)
    /\ emitted[1].data.tierName = (IF Frame.tierName.p THEN Frame.tierName.v ELSE "basic")

\* C18, amended: ... with months 1 where the frame has none or 0, tier 1 where
\* it has none or 0, tierName '기본 구독' where it has none or the empty string,
\* and the frame's own values otherwise.
C18_SubscriptionFalsyDefaults ==
  GotFrame("SUBSCRIPTION") =>
    /\ SubscriptionPassed
    /\ emitted[1].data.months =
         (IF Frame.months.p /\ Frame.months.v # 0 THEN Frame.months.v ELSE 1)
    /\ emitted[1].data.tier =
         (IF Frame.tier.p /\ Frame.tier.v # 0 THEN Frame.tier.v ELSE 1)
    /\ emitted[1].data.tierName =
         (IF Frame.tierName.p /\ Frame.tierName.v # "" THEN Frame.tierName.v
          ELSE DefaultTierName)

\* C18 happens: a SUBSCRIPTION frame with months 0, no tier and a tierName
\* has been reported.
C18_Witness ==
  /\ GotFrame("SUBSCRIPTION")
  /\ Frame.months = Num(0)
  /\ ~Frame.tier.p
  /\ Frame.tierName = Str("T2")
  /\ Len(emitted) = 1
  /\ emitted[1].data.tierName = "T2"

\* the parts of C19 that do not depend on the timestamp
ChatPassed ==
  /\ Len(emitted) = 1
  /\ emitted[1].name = "chatMessage"
  /\ emitted[1].data.channelId = chatChannelId
  /\ emitted[1].data.userId = Frame.userId
  /\ emitted[1].data.nickname = Frame.nickname
  /\ emitted[1].data.message = Frame.content
  /\ emitted[1].data.badges = (IF Frame.badges.p THEN Frame.badges.v ELSE <<>>)

\* C19, as stated: a CHAT frame emits one chatMessage event with the session's
\* channelId, the frame's userId, nickname and content, the frame's badges or
\* the empty list, and the frame's timestamp or, where it has none, the
\* receipt time.
C19_ChatMessageFields ==
  GotFrame("CHAT") =>
    /\ ChatPassed
    /\ emitted[1].data.timestamp =
         (IF Frame.timestamp.p THEN Frame.timestamp.v ELSE ReceiptTime)

\* C19, amended: ... and the frame's timestamp or, where it has none or 0, the
\* receipt time.
C19_ChatMessageFalsyTimestamp ==
  GotFrame("CHAT") =>
    /\ ChatPassed
    /\ emitted[1].data.timestamp =
         (IF Frame.timestamp.p /\ Frame.timestamp.v # 0 THEN Frame.timestamp.v
          ELSE ReceiptTime)

\* C19 happens: a CHAT frame without badges and timestamp has been reported
\* with the empty list and the receipt time.
C19_Witness ==
  /\ GotFrame("CHAT")
  /\ ~Frame.badges.p
  /\ ~Frame.timestamp.p
  /\ Len(emitted) = 1
  /\ emitted[1].data.badges = <<>>
  /\ emitted[1].data.timestamp = ReceiptTime
  /\ emitted[1].data.message = Str("hi")

\* the fields of the client and of its sockets and timers, without history
Fields(sk) == [c \in Slots |-> [pc |-> sk[c].pc, onclose |-> sk[c].onclose,
                                 waiter |-> sk[c].waiter, promise |-> sk[c].promise]]
Pendings(tm) == {t \in TimerIds : tm[t] # NoTimer}

\* a disconnectChat() that found no socket, or one made on an open socket,
\* has just returned
NoTransport == chatSocket = 0
Disconnecting ==
  /\ chatSocket # 0
  /\ sock[chatSocket].pc = "CLOSING"
  /\ sock[chatSocket].onclose = "disc"
  /\ sock[chatSocket].waiter = 0
  /\ chatHeartbeatInterval = 0
  /\ chatReconnectAttempts = 0

C14_OneRefreshOneRetry ==
  restCall.kind = "api" => restCall.reactive <= 1 /\ restCall.retries <= 1

\* C20: every refresh that has succeeded has emitted one tokenRefresh event.
C20_RefreshEmitsEvent == restCall.events = restCall.refreshes

(***************************************************************************)
(* The claims about overlapping calls, sockets and timers.                 *)
(***************************************************************************)
\* C21: connectChat without a channelId fails at once with an error: it emits
\* and sends nothing, starts no token request, creates no socket, and leaves
\* the socket held, the heartbeat, the channel, the reconnect counter and the
\* timers as they are.
C21_MissingChannelRefused ==
  [][ConnectCall("") =>
       /\ lastCall'.op = "connectChat"
       /\ lastCall'.error = "Error"
       /\ emitted' = <<>>
       /\ sent' = <<>>
       /\ UNCHANGED <<chatSocket, chatChannelId, chatHeartbeatInterval, intervals,
                      chatReconnectAttempts, sock, timers>>]_vars

\* C21 happens: connectChat('') has been refused while the session was
\* connected, and the session is still open with its heartbeat.
C21_Witness ==
  /\ lastCall.op = "connectChat"
  /\ lastCall.error = "Error"
  /\ lastCall.held # 0
  /\ chatSocket = lastCall.held
  /\ sock[chatSocket].pc = "OPEN"
  /\ chatHeartbeatInterval # 0
  /\ chatChannelId = "A"

\* the AUTH frame of the socket of slot s: sent on s, with the token its
\* connectChat call fetched and that call's channelId
OwnAuth(s) == [on |-> s, type |-> "AUTH", token |-> s, channelId |-> sock[s].chan]

\* C22: a socket that opens is sent exactly one frame by its onopen, its own
\* AUTH frame: on that socket, with the token and the channelId of the
\* connectChat call that created it.
C22_OpenedSocketGetsItsAuth ==
  [][\A s \in Slots : SocketOpen(s) => sent' = <<OwnAuth(s)>>]_vars

\* C23: no AUTH frame carries the token of an earlier call of connectChat on
\* the socket of a later one (under SpecInOrder the slots are in call order).
C23_NoEarlierTokenOnLaterSocket ==
  \A i \in 1..Len(sent) : sent[i].type = "AUTH" => ~(sent[i].token < sent[i].on)

\* Nothing is under way and nothing has been announced: attempts remain, no
\* reconnect timer is pending, no call and no socket is left, and the step
\* emitted no chatDisconnected.
SilentlyIdle ==
  /\ chatReconnectAttempts < chatMaxReconnectAttempts
  /\ \A t \in TimerIds : timers[t] = NoTimer
  /\ \A c \in Slots : sock[c].pc = "free"
  /\ \A i \in 1..Len(emitted) : emitted[i].name # "chatDisconnected"

\* C24: a reconnect attempt whose chat-token request fails does not leave the
\* session silently idle: a timer, a call or a socket is left to go on, or
\* chatDisconnected is emitted with the attempts used up.
C24_FailedReconnectGoesOn ==
  [][\A c \in Slots : (sock[c].kind = "reconnect" /\ TokenFail(c)) => ~SilentlyIdle']_vars

\* C25: a client that holds no socket (after disconnectChat) has no heartbeat
\* timer running: a socket it has let go of starts none.
C25_NoHeartbeatWithoutSocket == chatSocket = 0 => chatHeartbeatInterval = 0

\* C26: the error event of a socket emits exactly one event, chatError, sets
\* no reconnect timer and changes neither the reconnect counter nor the
\* heartbeat timer; a reconnect timer is set only by the close event of a
\* socket that has the onclose of connectChat.
C26_ErrorOnlyReports ==
  [][/\ \A s \in Slots :
          SocketError(s) =>
            /\ Len(emitted') = 1
            /\ emitted'[1].name = "chatError"
            /\ UNCHANGED <<timers, chatReconnectAttempts, chatHeartbeatInterval, intervals>>
     /\ (\E t \in TimerIds : timers[t] = NoTimer /\ timers'[t] # NoTimer) =>
          \E s \in Slots : /\ sock[s].pc \in {"OPEN", "CLOSING"}
                           /\ sock[s].onclose = "orig"
                           /\ sock'[s].pc \in {"CLOSED", "free"}
                           /\ emitted'[1].name = "chatDisconnected"]_vars

\* C26 happens: a socket has just reported an error while the heartbeat timer
\* runs and the reconnect counter is 1; both are as they were.
C26_Witness ==
  /\ Len(emitted) = 1
  /\ emitted[1].name = "chatError"
  /\ chatHeartbeatInterval # 0
  /\ chatReconnectAttempts = 1
  /\ \E s \in Slots : sock[s].pc = "CLOSING" /\ sock[s].opened

\* The client holds the open socket of an explicit connectChat(ch) that has
\* resolved.
Established(ch) ==
  /\ chatSocket # 0
  /\ sock[chatSocket].pc = "OPEN"
  /\ sock[chatSocket].kind = "explicit"
  /\ sock[chatSocket].promise = "resolved"
  /\ sock[chatSocket].chan = ch

\* C27: a reconnect timer for one channel that was set before the last explicit
\* connectChat (no socket has closed since that call, and no disconnectChat
\* was called) leaves the established session of another channel as it is
\* when it fires: the socket stays held and open.
C27_TimerSparesLaterSession ==
  [][\A t \in TimerIds, ch \in Channels :
       (/\ timers[t] # NoTimer
        /\ timers[t].chan # ch
        /\ ~timers[t].stale
        /\ closures = 0
        /\ Established(ch)
        /\ TimerFire(t))
       => /\ chatSocket' = chatSocket
          /\ sock'[chatSocket].pc = "OPEN"]_vars

\* C28: the close event of a socket that disconnectChat has closed leaves
\* this.chatSocket alone when the client holds another socket by then.
C28_LateCloseKeepsNewSocket ==
  [][\A s \in Slots :
       (chatSocket # 0 /\ chatSocket # s /\ SocketCloseDisc(s)) => chatSocket' = chatSocket]_vars

\* C29: while the client holds an open socket whose connectChat has resolved,
\* the heartbeat timer is running; and there is never more than one.
C29_HeartbeatWhileOpen ==
  /\ intervals <= 1
  /\ (chatSocket # 0 /\ sock[chatSocket].pc = "OPEN" /\ sock[chatSocket].promise = "resolved")
       => chatHeartbeatInterval # 0

\* C30: a chatMessage, chatDonation, chatSubscription or chatNotice event
\* carries the channelId of the connectChat call that created the socket the
\* frame arrived on.
C30_EventCarriesSocketChannel ==
  \A i \in 1..Len(emitted) :
    emitted[i].name \in {"chatMessage", "chatDonation", "chatSubscription", "chatNotice"} =>
      /\ received # <<>>
      /\ emitted[i].data.channelId = sock[received[1].on].chan

====
